---- MODULE Spec2Model ----
(***************************************************************************)
(* wlog: a process-local logging engine.                                   *)
(*                                                                         *)
(*   Spec      the dispatch engine (WLogger): producers calling WriteMsg,  *)
(*             Flush and Close, the message and signal channels, the       *)
(*             WaitGroup and the single consumer goroutine.                *)
(*   FileSpec  the rotating file writer (fileLogWriter): WriteMsg with its *)
(*             double-checked rotation, doRotate, startLogger, initFd and  *)
(*             the daily rotation goroutines.                              *)
(***************************************************************************)
EXTENDS Integers, Sequences, FiniteSets, TLC

\* ----------------------------------------------------------------- bounds
MaxMsgs == 2
MaxSignals == 2                \* calls of Flush and Close, together
ChanLens == {1, 2}

\* the goroutines that call the logger
Procs == {"p1", "p2"}

\* the rotating file writer
MaxWrites == 2                 \* calls of fileLogWriter.WriteMsg
MaxDay == 2                    \* calendar days the clock runs through
MsgLens == {2}                 \* len(msg) of a formatted record
\* the configurations: limits by lines, by size, by day, by size and day, none,
\* and limits by lines and day with Rotate switched off
Configs == { [MaxLines |-> 1, MaxSize |-> 0, Daily |-> FALSE, Rotate |-> TRUE],
             [MaxLines |-> 0, MaxSize |-> 3, Daily |-> FALSE, Rotate |-> TRUE],
             [MaxLines |-> 0, MaxSize |-> 0, Daily |-> TRUE, Rotate |-> TRUE],
             [MaxLines |-> 0, MaxSize |-> 3, Daily |-> TRUE, Rotate |-> TRUE],
             [MaxLines |-> 0, MaxSize |-> 0, Daily |-> FALSE, Rotate |-> TRUE],
             [MaxLines |-> 1, MaxSize |-> 0, Daily |-> TRUE, Rotate |-> FALSE] }
InitialLines == {0, 1}         \* lines (of length 2) of the file found at Init
\* numbered siblings found at Init for the first day: the names 001..dense
\* and the names in extra (0 is the unnumbered daily name)
InitialSiblings == { [dense |-> 0, extra |-> {}],
                     [dense |-> 0, extra |-> {0, 2}],
                     [dense |-> 998, extra |-> {0}] }
\* the goroutines that call the file writer
FProcs == {"w1", "w2"}

\* opening a file that already exists
MaxFileLen == 4                \* bytes of the file found
BufLen == 2                    \* len(buf) of lines(), 32768 in the source
Bytes == {"c", "nl"}           \* a byte of the file: the line separator, or another
LineLimits == {0, 1, 3}        \* MaxLines of the writer that opens the file

\* ------------------------------------------------------------- variables
VARIABLES
    \* ---- WLogger
    asynchronous,    \* bl.asynchronous
    msgChanLen,      \* bl.msgChanLen: capacity of msgChan
    msgChan,         \* bl.msgChan: buffered records, oldest first
    msgChanClosed,   \* close(bl.msgChan) has run
    signalChan,      \* bl.signalChan: capacity 1
    signalChanClosed,
    wg,              \* bl.wg: the WaitGroup counter
    outputs,         \* bl.outputs: "set" or "nil"
    cpc,             \* position of the consumer goroutine (startLogger)
    sg,              \* the signal the consumer is handling
    pc,              \* position of each caller
    rec,             \* the record a caller is submitting
    snap,            \* number of submitted records when a caller called Flush/Close
    mine,            \* number of signals sent before a caller's own signal
    ret,             \* the last call each caller returned from
    late,            \* history: the caller's WriteMsg began after a Close returned
    nextRec,         \* records created so far + 1
    flushCalls,
    closeCalls,
    enq,             \* history: records in the order they entered msgChan
    sigsDone,        \* history: number of signals the consumer has finished
    sigsSent,        \* history: number of signals sent on signalChan
    panicked,        \* "none", or the runtime panic that ended the process
    \* ---- the Logger behind bl.outputs, as the engine sees it
    written,         \* records handed to outputs.WriteMsg, in order
    failed,          \* records whose outputs.WriteMsg returned an error
    syncedLen,       \* Len(written) at the last outputs.Flush(), -1 before any
    wstate,          \* "open", or "destroyed" after outputs.Destroy()
    \* ---- fileLogWriter
    MaxLines, MaxSize, Daily, Rotate,   \* the configuration
    fileWriter,       \* w.fileWriter: "open" or "closed"
    maxLinesCurLines,
    maxSizeCurSize,
    dailyOpenDate,    \* day of w.dailyOpenTime
    \* ---- the file system and the clock
    activeExists,     \* a file exists at w.Filename
    fileLines,        \* lines of the file at w.Filename
    fileSize,         \* bytes of the file at w.Filename
    dense,            \* siblings 001..dense of day 1 existed at Init
    siblings,         \* the other sibling files, as << day, number >>
    today,            \* the current day
    \* ---- goroutines
    fpc,              \* position of each caller of fileLogWriter.WriteMsg
    fmsg,             \* len(msg) and day of the record a caller is writing,
                      \* and what its first needRotate answered
    dailyTasks,       \* the live dailyRotate goroutines, counted by open day
    sweepers,         \* number of taskDeleteLog goroutines started by initFd
    \* ---- history
    fwrites,          \* WriteMsg calls so far
    fret,             \* what the last fileLogWriter.WriteMsg returned
    destroyed,        \* Destroy() has run
    rot,              \* the last doRotate call and the first write after it,
                      \* kept until the WriteMsg after that write begins
    fired,            \* the firing of a dailyRotate timer in the last step
    rotFailed,        \* some doRotate so far has failed or panicked
    rotLog,           \* the targets of the successful renames, in order, each
                      \* with what the directory held when it was renamed to
    \* ---- opening
    content,          \* the bytes of the file found at w.Filename
    initErr           \* "none", or what Init returned: "nil" or "read"

dvars == << asynchronous, msgChanLen, msgChan, msgChanClosed, signalChan,
            signalChanClosed, wg, outputs, cpc, sg, pc, rec, snap, mine, ret,
            late, nextRec, flushCalls, closeCalls, enq, sigsDone, sigsSent, panicked,
            written, failed, syncedLen, wstate >>

fvars == << MaxLines, MaxSize, Daily, Rotate, fileWriter,
            maxLinesCurLines, maxSizeCurSize, dailyOpenDate, activeExists,
            fileLines, fileSize, dense, siblings, today, fpc, fmsg,
            dailyTasks, sweepers, fwrites, fret, destroyed, rot, fired,
            rotFailed, rotLog >>

\* what the Write of fileLogWriter.WriteMsg changes, and the rest
wvars == << fileLines, fileSize, maxLinesCurLines, maxSizeCurSize, fret >>

fRest == << MaxLines, MaxSize, Daily, Rotate, fileWriter, dailyOpenDate,
            activeExists, dense, siblings, today, fpc, fmsg, dailyTasks,
            sweepers, fwrites, destroyed, rot, fired, rotFailed, rotLog >>

svars == << content, initErr >>

vars == << dvars, fvars, svars >>

\* the engine's variables but panicked, which the file writer shares
dRest == << asynchronous, msgChanLen, msgChan, msgChanClosed, signalChan,
            signalChanClosed, wg, outputs, cpc, sg, pc, rec, snap, mine, ret,
            late, nextRec, flushCalls, closeCalls, enq, sigsDone, sigsSent,
            written, failed, syncedLen, wstate >>

defaultAsyncMsgLen == 1000

\* ------------------------------------------------------------- WLogger
\* NewLogger(n), SetLogger(file) and, in async mode, Async(): the channel is
\* made with the given capacity, the counter is 1 and the consumer runs.
DInit ==
    /\ asynchronous \in BOOLEAN
    /\ msgChanLen \in ChanLens
    /\ msgChan = << >>
    /\ msgChanClosed = FALSE
    /\ signalChan = << >>
    /\ signalChanClosed = FALSE
    /\ wg = IF asynchronous THEN 1 ELSE 0
    /\ outputs = "set"
    /\ cpc = IF asynchronous THEN "select" ELSE "none"
    /\ sg = ""
    /\ pc = [p \in Procs |-> "idle"]
    /\ rec = [p \in Procs |-> 0]
    /\ snap = [p \in Procs |-> 0]
    /\ mine = [p \in Procs |-> 0]
    /\ ret = [p \in Procs |-> [op |-> "none", err |-> "nil"]]
    /\ late = [p \in Procs |-> FALSE]
    /\ nextRec = 1
    /\ flushCalls = 0
    /\ closeCalls = 0
    /\ enq = << >>
    /\ sigsDone = 0
    /\ sigsSent = 0
    /\ panicked = "none"
    /\ written = << >>
    /\ failed = {}
    /\ syncedLen = -1
    /\ wstate = "open"

Running == panicked = "none"

\* some Close call has returned
CloseReturned == \E q \in Procs : ret[q].op = "close"

\* outputs.WriteMsg(when, msg, level) as writeToLoggers sees it: the record is
\* handed to the writer; the write fails on a destroyed writer, and may fail
\* on an open one (ioErr). writeToLoggers prints the error and drops it.
\* The writer is a fileLogWriter with Rotate off: WriteMsg is its lines
\* 123-130, which count the record when Write succeeded and return the error.
WriterErr(ioErr) == IF wstate = "destroyed" THEN "closed"
                    ELSE IF ioErr THEN "io" ELSE "nil"

\* a writer that counts the record whether or not Write succeeded
writeToLoggersCounting(r, ioErr) ==
    /\ written' = Append(written, r)
    /\ failed' = IF WriterErr(ioErr) = "nil" THEN failed ELSE failed \cup {r}
    /\ fret' = WriterErr(ioErr)
    /\ \E len \in MsgLens :
          /\ fileLines' = IF WriterErr(ioErr) = "nil" THEN fileLines + 1 ELSE fileLines
          /\ fileSize' = IF WriterErr(ioErr) = "nil" THEN fileSize + len ELSE fileSize
          /\ maxLinesCurLines' = maxLinesCurLines + 1
          /\ maxSizeCurSize' = maxSizeCurSize + len

writeToLoggers(r, ioErr) ==
    /\ written' = Append(written, r)
    /\ failed' = IF WriterErr(ioErr) = "nil" THEN failed ELSE failed \cup {r}
    /\ fret' = WriterErr(ioErr)
    /\ \E len \in MsgLens :
          IF WriterErr(ioErr) = "nil"
          THEN /\ fileLines' = fileLines + 1
               /\ fileSize' = fileSize + len
               /\ maxLinesCurLines' = maxLinesCurLines + 1
               /\ maxSizeCurSize' = maxSizeCurSize + len
          ELSE UNCHANGED << fileLines, fileSize, maxLinesCurLines, maxSizeCurSize >>

\* what WriteMsg returns once the record is enqueued or written (line 205)
WriteMsgResult == "nil"

Panic(why) == panicked' = why

\* bl.outputs.Flush() -> fileLogWriter.Flush(): Sync() of a closed handle
\* returns an error that is dropped, nothing is synced
outputsFlush ==
    syncedLen' = IF wstate = "open" THEN Len(written) ELSE syncedLen

\* ---- WLogger.WriteMsg
\* asynchronous: the record is built (lines 196-199), then sent (line 200)
WriteMsgAsync(p) ==
    /\ Running /\ asynchronous
    /\ UNCHANGED << fvars, svars >>
    /\ pc[p] = "idle"
    /\ nextRec <= MaxMsgs
    /\ rec' = [rec EXCEPT ![p] = nextRec]
    /\ late' = [late EXCEPT ![p] = CloseReturned]
    /\ nextRec' = nextRec + 1
    /\ pc' = [pc EXCEPT ![p] = "send"]
    /\ UNCHANGED << asynchronous, msgChanLen, msgChan, msgChanClosed, signalChan,
                    signalChanClosed, wg, outputs, cpc, sg, snap, mine, ret,
                    flushCalls, closeCalls, enq, sigsDone, sigsSent, panicked,
                    written, failed, syncedLen, wstate >>

\* a send that gives up on a full buffer instead of blocking
WriteMsgSendDrop(p) ==
    /\ Running
    /\ UNCHANGED << fvars, svars >>
    /\ pc[p] = "send"
    /\ ~msgChanClosed
    /\ IF Len(msgChan) < msgChanLen
       THEN /\ msgChan' = Append(msgChan, rec[p])
            /\ enq' = Append(enq, rec[p])
       ELSE UNCHANGED << msgChan, enq >>
    /\ pc' = [pc EXCEPT ![p] = "idle"]
    /\ ret' = [ret EXCEPT ![p] = [op |-> "write", err |-> WriteMsgResult]]
    /\ UNCHANGED << late, asynchronous, msgChanLen, msgChanClosed, signalChan,
                    signalChanClosed, wg, outputs, cpc, sg, rec, snap, mine,
                    nextRec, flushCalls, closeCalls, sigsDone, sigsSent,
                    panicked, written, failed, syncedLen, wstate >>

\* bl.msgChan <- lm: blocks while the buffer is full, panics on a closed channel
WriteMsgSend(p) ==
    /\ Running
    /\ UNCHANGED << fvars, svars >>
    /\ pc[p] = "send"
    /\ IF msgChanClosed
       THEN /\ Panic("send on closed channel")
            /\ UNCHANGED << msgChan, enq, pc, ret >>
       ELSE /\ Len(msgChan) < msgChanLen
            /\ msgChan' = Append(msgChan, rec[p])
            /\ enq' = Append(enq, rec[p])
            /\ pc' = [pc EXCEPT ![p] = "idle"]
            /\ ret' = [ret EXCEPT ![p] = [op |-> "write", err |-> WriteMsgResult]]
            /\ UNCHANGED panicked
    /\ UNCHANGED << late, asynchronous, msgChanLen, msgChanClosed, signalChan,
                    signalChanClosed, wg, outputs, cpc, sg, rec, snap, mine,
                    nextRec, flushCalls, closeCalls, sigsDone, sigsSent,
                    written, failed, syncedLen, wstate >>

\* synchronous: bl.writeToLoggers(when, msg, logLevel) in the caller (line 202);
\* bl.outputs is nil after Close
WriteMsgSync(p, ioErr) ==
    /\ Running /\ ~asynchronous
    /\ UNCHANGED << fRest, svars >>
    /\ pc[p] = "idle"
    /\ nextRec <= MaxMsgs
    /\ nextRec' = nextRec + 1
    /\ rec' = [rec EXCEPT ![p] = nextRec]
    /\ late' = [late EXCEPT ![p] = CloseReturned]
    /\ IF outputs = "nil"
       THEN /\ Panic("nil pointer dereference")
            /\ UNCHANGED << written, failed, wvars, ret >>
       ELSE /\ writeToLoggers(nextRec, ioErr)
            /\ ret' = [ret EXCEPT ![p] = [op |-> "write", err |-> WriteMsgResult]]
            /\ UNCHANGED panicked
    /\ UNCHANGED << asynchronous, msgChanLen, msgChan, msgChanClosed, signalChan,
                    signalChanClosed, wg, outputs, cpc, sg, pc, snap, mine,
                    flushCalls, closeCalls, enq, sigsDone, sigsSent,
                    syncedLen, wstate >>

\* records whose WriteMsg has returned
Submitted == IF asynchronous THEN Len(enq) ELSE Len(written)

\* ---- WLogger.Flush
FlushCall(p) ==
    /\ Running
    /\ UNCHANGED << fvars, svars >>
    /\ pc[p] = "idle"
    /\ flushCalls + closeCalls < MaxSignals
    /\ flushCalls' = flushCalls + 1
    /\ snap' = [snap EXCEPT ![p] = Submitted]
    /\ IF asynchronous
       THEN /\ pc' = [pc EXCEPT ![p] = "fsend"]
            /\ UNCHANGED << syncedLen, ret, panicked >>
       ELSE \* bl.flush(): bl.outputs.Flush()
            IF outputs = "nil"
            THEN /\ Panic("nil pointer dereference")
                 /\ UNCHANGED << syncedLen, ret, pc >>
            ELSE /\ outputsFlush
                 /\ ret' = [ret EXCEPT ![p] = [op |-> "flush", err |-> "nil"]]
                 /\ UNCHANGED << pc, panicked >>
    /\ UNCHANGED << late, asynchronous, msgChanLen, msgChan, msgChanClosed, signalChan,
                    signalChanClosed, wg, outputs, cpc, sg, rec, mine,
                    nextRec, closeCalls, enq, sigsDone, sigsSent,
                    written, failed, wstate >>

\* bl.signalChan <- s: capacity 1
SendSignal(p, s, next) ==
    /\ IF signalChanClosed
       THEN /\ Panic("send on closed channel")
            /\ UNCHANGED << signalChan, sigsSent, mine, pc >>
       ELSE /\ Len(signalChan) < 1
            /\ signalChan' = Append(signalChan, s)
            /\ sigsSent' = sigsSent + 1
            /\ mine' = [mine EXCEPT ![p] = sigsSent + 1]
            /\ pc' = [pc EXCEPT ![p] = next]
            /\ UNCHANGED panicked
    /\ UNCHANGED << late, asynchronous, msgChanLen, msgChan, msgChanClosed,
                    signalChanClosed, wg, outputs, cpc, sg, rec, snap, ret,
                    nextRec, flushCalls, closeCalls, enq, sigsDone,
                    written, failed, syncedLen, wstate >>

FlushSend(p) ==
    /\ Running
    /\ UNCHANGED << fvars, svars >>
    /\ pc[p] = "fsend"
    /\ SendSignal(p, "flush", "fwait")

\* bl.wg.Wait(): returns when the counter is 0
WgWait(p, next) ==
    /\ wg = 0
    /\ pc' = [pc EXCEPT ![p] = next]
    /\ UNCHANGED << late, asynchronous, msgChanLen, msgChan, msgChanClosed, signalChan,
                    signalChanClosed, wg, outputs, cpc, sg, rec, snap, mine, ret,
                    nextRec, flushCalls, closeCalls, enq, sigsDone, sigsSent,
                    panicked, written, failed, syncedLen, wstate >>

FlushWait(p) ==
    /\ Running
    /\ UNCHANGED << fvars, svars >>
    /\ pc[p] = "fwait"
    /\ WgWait(p, "fadd")

\* bl.wg.Add(1); return
FlushAdd(p) ==
    /\ Running
    /\ UNCHANGED << fvars, svars >>
    /\ pc[p] = "fadd"
    /\ wg' = wg + 1
    /\ pc' = [pc EXCEPT ![p] = "idle"]
    /\ ret' = [ret EXCEPT ![p] = [op |-> "flush", err |-> "nil"]]
    /\ UNCHANGED << late, asynchronous, msgChanLen, msgChan, msgChanClosed, signalChan,
                    signalChanClosed, outputs, cpc, sg, rec, snap, mine,
                    nextRec, flushCalls, closeCalls, enq, sigsDone, sigsSent,
                    panicked, written, failed, syncedLen, wstate >>

\* ---- WLogger.Close
CloseCall(p) ==
    /\ Running
    /\ UNCHANGED << fvars, svars >>
    /\ pc[p] = "idle"
    /\ flushCalls + closeCalls < MaxSignals
    /\ closeCalls' = closeCalls + 1
    /\ snap' = [snap EXCEPT ![p] = Submitted]
    /\ IF asynchronous
       THEN /\ pc' = [pc EXCEPT ![p] = "csend"]
            /\ UNCHANGED << syncedLen, wstate, panicked >>
       ELSE \* bl.flush(); bl.outputs.Destroy()
            IF outputs = "nil"
            THEN /\ Panic("nil pointer dereference")
                 /\ UNCHANGED << syncedLen, wstate, pc >>
            ELSE /\ outputsFlush
                 /\ wstate' = "destroyed"
                 /\ pc' = [pc EXCEPT ![p] = "cnil"]
                 /\ UNCHANGED panicked
    /\ UNCHANGED << late, asynchronous, msgChanLen, msgChan, msgChanClosed, signalChan,
                    signalChanClosed, wg, outputs, cpc, sg, rec, mine, ret,
                    nextRec, flushCalls, enq, sigsDone, sigsSent,
                    written, failed >>

CloseSend(p) ==
    /\ Running
    /\ UNCHANGED << fvars, svars >>
    /\ pc[p] = "csend"
    /\ SendSignal(p, "close", "cwait")

CloseWait(p) ==
    /\ Running
    /\ UNCHANGED << fvars, svars >>
    /\ pc[p] = "cwait"
    /\ WgWait(p, "cmsg")

\* close(bl.msgChan)
CloseMsgChan(p) ==
    /\ Running
    /\ UNCHANGED << fvars, svars >>
    /\ pc[p] = "cmsg"
    /\ IF msgChanClosed
       THEN /\ Panic("close of closed channel")
            /\ UNCHANGED << msgChanClosed, pc >>
       ELSE /\ msgChanClosed' = TRUE
            /\ pc' = [pc EXCEPT ![p] = "csig"]
            /\ UNCHANGED panicked
    /\ UNCHANGED << late, asynchronous, msgChanLen, msgChan, signalChan,
                    signalChanClosed, wg, outputs, cpc, sg, rec, snap, mine, ret,
                    nextRec, flushCalls, closeCalls, enq, sigsDone, sigsSent,
                    written, failed, syncedLen, wstate >>

\* synchronous: bl.outputs = nil (line 341), falling through to CloseSigChan
CloseSyncNil(p) ==
    /\ Running
    /\ UNCHANGED << fvars, svars >>
    /\ pc[p] = "cnil"
    /\ outputs' = "nil"
    /\ pc' = [pc EXCEPT ![p] = "csig"]
    /\ UNCHANGED << late, asynchronous, msgChanLen, msgChan, msgChanClosed, signalChan,
                    signalChanClosed, wg, cpc, sg, rec, snap, mine, ret,
                    nextRec, flushCalls, closeCalls, enq, sigsDone, sigsSent,
                    panicked, written, failed, syncedLen, wstate >>

\* close(bl.signalChan); return
CloseSigChan(p) ==
    /\ Running
    /\ UNCHANGED << fvars, svars >>
    /\ pc[p] = "csig"
    /\ IF signalChanClosed
       THEN /\ Panic("close of closed channel")
            /\ UNCHANGED << signalChanClosed, pc, ret >>
       ELSE /\ signalChanClosed' = TRUE
            /\ pc' = [pc EXCEPT ![p] = "idle"]
            /\ ret' = [ret EXCEPT ![p] = [op |-> "close", err |-> "nil"]]
            /\ UNCHANGED panicked
    /\ UNCHANGED << late, asynchronous, msgChanLen, msgChan, msgChanClosed, signalChan,
                    wg, outputs, cpc, sg, rec, snap, mine,
                    nextRec, flushCalls, closeCalls, enq, sigsDone, sigsSent,
                    written, failed, syncedLen, wstate >>

\* ---- WLogger.startLogger: the consumer goroutine
\* receive from msgChan and write: used by the select case (lines 228-230) and
\* by the drain loop of flush (lines 355-359). A closed, empty channel yields
\* a nil *logMsg, and bm.when dereferences it.
TakeMsgNewest(ioErr) ==
    IF msgChan # << >>
    THEN /\ msgChan' = SubSeq(msgChan, 1, Len(msgChan) - 1)
         /\ writeToLoggers(msgChan[Len(msgChan)], ioErr)
         /\ UNCHANGED panicked
    ELSE /\ Panic("nil pointer dereference")
         /\ UNCHANGED << msgChan, written, failed, wvars >>

TakeMsg(ioErr) ==
    IF msgChan # << >>
    THEN /\ msgChan' = Tail(msgChan)
         /\ writeToLoggers(Head(msgChan), ioErr)
         /\ UNCHANGED panicked
    ELSE /\ Panic("nil pointer dereference")
         /\ UNCHANGED << msgChan, written, failed, wvars >>

ConsumerMsg(ioErr) ==
    /\ Running
    /\ UNCHANGED << fRest, svars >>
    /\ cpc = "select"
    /\ msgChan # << >> \/ msgChanClosed
    /\ TakeMsg(ioErr)
    /\ UNCHANGED << late, asynchronous, msgChanLen, msgChanClosed, signalChan,
                    signalChanClosed, wg, outputs, cpc, sg, pc, rec, snap, mine,
                    ret, nextRec, flushCalls, closeCalls, enq, sigsDone, sigsSent,
                    syncedLen, wstate >>

\* case sg := <-bl.signalChan: a closed, empty channel yields ""
ConsumerSignal ==
    /\ Running
    /\ UNCHANGED << fvars, svars >>
    /\ cpc = "select"
    /\ signalChan # << >> \/ signalChanClosed
    /\ IF signalChan # << >>
       THEN /\ sg' = Head(signalChan)
            /\ signalChan' = Tail(signalChan)
       ELSE /\ sg' = ""
            /\ UNCHANGED signalChan
    /\ cpc' = "drain"
    /\ UNCHANGED << late, asynchronous, msgChanLen, msgChan, msgChanClosed,
                    signalChanClosed, wg, outputs, pc, rec, snap, mine, ret,
                    nextRec, flushCalls, closeCalls, enq, sigsDone, sigsSent,
                    panicked, written, failed, syncedLen, wstate >>

\* flush(): one iteration of the loop with len(bl.msgChan) > 0
ConsumerDrain(ioErr) ==
    /\ Running
    /\ UNCHANGED << fRest, svars >>
    /\ cpc = "drain"
    /\ Len(msgChan) > 0
    /\ TakeMsg(ioErr)
    /\ UNCHANGED << late, asynchronous, msgChanLen, msgChanClosed, signalChan,
                    signalChanClosed, wg, outputs, cpc, sg, pc, rec, snap, mine,
                    ret, nextRec, flushCalls, closeCalls, enq, sigsDone, sigsSent,
                    syncedLen, wstate >>

\* flush(): the loop breaks on len(bl.msgChan) = 0, then bl.outputs.Flush()
ConsumerFlush ==
    /\ Running
    /\ UNCHANGED << fvars, svars >>
    /\ cpc = "drain"
    /\ Len(msgChan) = 0
    /\ outputsFlush
    /\ cpc' = "flushed"
    /\ UNCHANGED << late, asynchronous, msgChanLen, msgChan, msgChanClosed, signalChan,
                    signalChanClosed, wg, outputs, sg, pc, rec, snap, mine, ret,
                    nextRec, flushCalls, closeCalls, enq, sigsDone, sigsSent,
                    panicked, written, failed, wstate >>

\* lines 233-242: on "close" Destroy the writer and leave the loop; wg.Done()
\* panics when the counter goes below zero
ConsumerDone ==
    /\ Running
    /\ UNCHANGED << fvars, svars >>
    /\ cpc = "flushed"
    /\ IF sg = "close"
       THEN /\ wstate' = "destroyed"
            /\ outputs' = "nil"
       ELSE UNCHANGED << wstate, outputs >>
    /\ wg' = wg - 1
    /\ sigsDone' = sigsDone + 1
    /\ IF wg - 1 < 0
       THEN /\ Panic("negative WaitGroup counter")
            /\ UNCHANGED cpc
       ELSE /\ cpc' = IF sg = "close" THEN "exit" ELSE "select"
            /\ UNCHANGED panicked
    /\ UNCHANGED << late, asynchronous, msgChanLen, msgChan, msgChanClosed, signalChan,
                    signalChanClosed, sg, pc, rec, snap, mine, ret,
                    nextRec, flushCalls, closeCalls, enq, sigsSent,
                    written, failed, syncedLen >>

DNext ==
    \/ \E p \in Procs : WriteMsgAsync(p)
    \/ \E p \in Procs : WriteMsgSend(p)
    \/ \E p \in Procs, ioErr \in BOOLEAN : WriteMsgSync(p, ioErr)
    \/ \E p \in Procs : FlushCall(p)
    \/ \E p \in Procs : FlushSend(p)
    \/ \E p \in Procs : FlushWait(p)
    \/ \E p \in Procs : FlushAdd(p)
    \/ \E p \in Procs : CloseCall(p)
    \/ \E p \in Procs : CloseSend(p)
    \/ \E p \in Procs : CloseWait(p)
    \/ \E p \in Procs : CloseMsgChan(p)
    \/ \E p \in Procs : CloseSyncNil(p)
    \/ \E p \in Procs : CloseSigChan(p)
    \/ \E ioErr \in BOOLEAN : ConsumerMsg(ioErr)
    \/ ConsumerSignal
    \/ \E ioErr \in BOOLEAN : ConsumerDrain(ioErr)
    \/ ConsumerFlush
    \/ ConsumerDone

\* -------------------------------------------------------- fileLogWriter
\* the last sequence number doRotate probes
MaxRotateNum == 999

NoRot == [exhausted |-> FALSE, closed |-> FALSE, renamed |-> FALSE,
          reopenTried |-> FALSE, reopenOk |-> FALSE, err |-> "none",
          wrote |-> "none", again |-> FALSE]

NoFire == [at |-> 0, day |-> 0, due |-> FALSE, rotated |-> FALSE,
           afterDestroy |-> FALSE]

\* os.Lstat(name) succeeds for the sibling of that day and number
Exists(day, num) ==
    \/ day = 1 /\ num >= 1 /\ num <= dense
    \/ << day, num >> \in siblings

\* an initFd that never counts the lines of the file it opened
SeedLinesZero(size, count) == 0

\* initFd: the line counter is seeded from the file only with MaxLines > 0
\* and a non-empty file (lines 155, 161-167)
SeedLines(size, count) == IF size > 0 /\ MaxLines > 0 THEN count ELSE 0

\* initFd: go w.dailyRotate(w.dailyOpenTime), whose first statement reads the clock
SpawnDaily(tasks) ==
    IF Daily THEN [tasks EXCEPT ![today] = @ + 1] ELSE tasks

NoTasks == [d \in 1..MaxDay |-> 0]

\* newFileWriter, Init(config), startLogger, initFd on the file found on disk
FInit ==
    /\ \E c \in Configs :
          /\ MaxLines = c.MaxLines
          /\ MaxSize = c.MaxSize
          /\ Daily = c.Daily
          /\ Rotate = c.Rotate
    /\ today = 1
    /\ fileWriter = "open"
    /\ activeExists = TRUE
    /\ fileLines \in InitialLines
    /\ fileSize = 2 * fileLines
    /\ \E s \in InitialSiblings :
          /\ dense = s.dense
          /\ siblings = {<< 1, n >> : n \in s.extra}
    /\ maxSizeCurSize = fileSize
    /\ dailyOpenDate = today
    /\ maxLinesCurLines = SeedLines(fileSize, fileLines)
    /\ dailyTasks = SpawnDaily(NoTasks)
    /\ sweepers = IF Daily THEN 1 ELSE 0
    /\ fpc = [p \in FProcs |-> "idle"]
    /\ fmsg = [p \in FProcs |-> [len |-> 0, day |-> 0, saw |-> FALSE]]
    /\ fwrites = 0
    /\ fret = "none"
    /\ destroyed = FALSE
    /\ rot = NoRot
    /\ fired = NoFire
    /\ rotFailed = FALSE
    /\ rotLog = << >>

\* needRotate(size, day), lines 95-98
needRotate(size, day) ==
    \/ MaxLines > 0 /\ maxLinesCurLines >= MaxLines
    \/ MaxSize > 0 /\ maxSizeCurSize >= MaxSize
    \/ Daily /\ day # dailyOpenDate /\ maxLinesCurLines > 0

\* the probe loop of doRotate (lines 229-232, 236-239): num runs from 1 while
\* the name exists and num <= 999; it ends on the first name that does not
\* exist, or with the last name, 999, found existing (free is FALSE)
Probe(day) ==
    IF \A n \in 1..MaxRotateNum : Exists(day, n)
    THEN [day |-> day, num |-> MaxRotateNum, free |-> FALSE]
    ELSE [day |-> day,
          num |-> CHOOSE n \in 1..MaxRotateNum :
                      ~Exists(day, n) /\ \A m \in 1..(n - 1) : Exists(day, m),
          free |-> TRUE]

\* a rotation that always takes the first numbered name
FindNameFirst(logDay) ==
    [day |-> IF MaxLines > 0 \/ MaxSize > 0 THEN logDay ELSE dailyOpenDate,
     num |-> 1, free |-> TRUE]

\* doRotate lines 228-240: the name the active file is renamed to. With a size
\* or line limit the day is the record's and the name is numbered; otherwise
\* the day is the open day and the unnumbered name is tried first.
FindName(logDay) ==
    IF MaxLines > 0 \/ MaxSize > 0
    THEN Probe(logDay)
    ELSE IF ~Exists(dailyOpenDate, 0)
         THEN [day |-> dailyOpenDate, num |-> 0, free |-> TRUE]
         ELSE Probe(dailyOpenDate)

\* a rotation that gives up when the rename or the Lstat failed
RestartOnlyOnSuccess(err) == err = "nil" \/ err = "chmod"

\* doRotate lines 223-259: RESTART_LOGGER is reached whatever err is
RestartLogger(err) == TRUE

\* doRotate(logTime), for every outcome of os.Rename, os.Chmod and of the
\* os.OpenFile of createLogFile. tasks are the daily goroutines. RotatePerm is
\* taken to parse (line 218), as the default "0666" does.
doRotate(logDay, tasks) ==
    \E name \in {FindName(logDay)} :
    \E renameOk, chmodOk, reopenOk \in BOOLEAN :
    LET tgt == << name.day, name.num >>
        existed == Exists(name.day, name.num)
        \* the file is the one the last rotation renamed away and opened anew,
        \* and no WriteMsg has reached its Write since
        again == rot.renamed /\ rot.reopenOk /\ rot.wrote = "none"
        lowest == \A m \in 1..(name.num - 1) : Exists(name.day, m)
        closedH == activeExists
        renamed == closedH /\ renameOk
        err1 == IF ~activeExists THEN "lstat"
                ELSE IF ~renameOk THEN "rename"
                ELSE IF ~chmodOk THEN "chmod" ELSE "nil"
        lines1 == IF renamed THEN 0 ELSE fileLines
        size1 == IF renamed THEN 0 ELSE fileSize
        restart == RestartLogger(err1)
        reopened == restart /\ reopenOk
        err == IF restart /\ ~reopenOk THEN "startLogger" ELSE err1
    IN
    IF activeExists /\ ~name.free
    THEN \* line 243: err is nil, and line 244 calls err.Error()
         /\ Panic("nil pointer dereference")
         /\ rot' = [NoRot EXCEPT !.exhausted = TRUE]
         /\ rotFailed' = TRUE
         /\ dailyTasks' = tasks
         /\ UNCHANGED << fileWriter, maxLinesCurLines, maxSizeCurSize,
                         dailyOpenDate, activeExists, fileLines, fileSize,
                         siblings, sweepers, rotLog >>
    ELSE /\ fileWriter' = IF reopened THEN "open"
                          ELSE IF closedH THEN "closed" ELSE fileWriter
         /\ siblings' = IF renamed THEN siblings \cup {tgt} ELSE siblings
         /\ rotLog' = IF renamed
                      THEN Append(rotLog, [day |-> name.day, num |-> name.num,
                                           existed |-> existed, lowest |-> lowest])
                      ELSE rotLog
         /\ activeExists' = ((activeExists /\ ~renamed) \/ reopened)
         /\ fileLines' = lines1
         /\ fileSize' = size1
         /\ IF reopened
            THEN \* startLogger, initFd
                 /\ maxSizeCurSize' = size1
                 /\ dailyOpenDate' = today
                 /\ maxLinesCurLines' = SeedLines(size1, lines1)
                 /\ dailyTasks' = SpawnDaily(tasks)
                 /\ sweepers' = IF Daily THEN sweepers + 1 ELSE sweepers
            ELSE /\ dailyTasks' = tasks
                 /\ UNCHANGED << maxSizeCurSize, dailyOpenDate, maxLinesCurLines,
                                 sweepers >>
         /\ rot' = [exhausted |-> FALSE, closed |-> closedH, renamed |-> renamed,
                    reopenTried |-> restart, reopenOk |-> reopened,
                    err |-> err, wrote |-> "none", again |-> again]
         /\ rotFailed' = (rotFailed \/ err # "nil")
         /\ UNCHANGED panicked

\* ---- fileLogWriter.WriteMsg
\* lines 105-110, 118-120: the record is formatted and, under the read lock,
\* needRotate decides whether the caller goes for the exclusive lock
FWBegin(p, len) ==
    /\ Running
    /\ UNCHANGED << dRest, svars >>
    /\ fpc[p] = "idle"
    /\ fwrites < MaxWrites
    /\ fwrites' = fwrites + 1
    /\ rot' = IF rot.wrote = "none" THEN rot ELSE NoRot
    /\ fmsg' = [fmsg EXCEPT ![p] = [len |-> len, day |-> today,
                                    saw |-> Rotate /\ needRotate(len, today)]]
    /\ fpc' = [fpc EXCEPT ![p] = IF Rotate /\ needRotate(len, today)
                                 THEN "rotate" ELSE "write"]
    /\ fired' = NoFire
    /\ UNCHANGED << rotFailed, fret, MaxLines, MaxSize, Daily, Rotate, fileWriter,
                    maxLinesCurLines, maxSizeCurSize, dailyOpenDate, activeExists,
                    fileLines, fileSize, dense, siblings, today,
                    dailyTasks, sweepers, destroyed, rotLog, panicked >>

\* a second check that always goes on to rotate
RecheckNone(p) == TRUE

\* line 112: needRotate again, under the exclusive lock
Recheck(p) == needRotate(fmsg[p].len, fmsg[p].day)

\* lines 111-117 with the second needRotate true: doRotate under the lock;
\* its error is printed and dropped
FWRotate(p) ==
    /\ Running
    /\ UNCHANGED << dRest, svars >>
    /\ fpc[p] = "rotate"
    /\ Recheck(p)
    /\ doRotate(fmsg[p].day, dailyTasks)
    /\ fpc' = [fpc EXCEPT ![p] = "write"]
    /\ fired' = NoFire
    /\ UNCHANGED << fret, MaxLines, MaxSize, Daily, Rotate, dense, today,
                    fmsg, fwrites, destroyed >>

\* lines 111-117 with the second needRotate false
FWRotateSkip(p) ==
    /\ Running
    /\ UNCHANGED << dRest, svars >>
    /\ fpc[p] = "rotate"
    /\ ~Recheck(p)
    /\ fpc' = [fpc EXCEPT ![p] = "write"]
    /\ fired' = NoFire
    /\ UNCHANGED << rotFailed, fret, MaxLines, MaxSize, Daily, Rotate, fileWriter,
                    maxLinesCurLines, maxSizeCurSize, dailyOpenDate, activeExists,
                    fileLines, fileSize, dense, siblings, today, fmsg,
                    dailyTasks, sweepers, fwrites, destroyed, rot, rotLog,
                    panicked >>

\* the error of w.fileWriter.Write: a closed handle, or an I/O fault
WriteErr(ioErr) == IF fileWriter = "closed" THEN "closed"
                   ELSE IF ioErr THEN "io" ELSE "nil"

\* lines 123-130: write under the lock, count on success, return the error
FWWrite(p, ioErr) ==
    /\ Running
    /\ UNCHANGED << dRest, svars >>
    /\ fpc[p] = "write"
    /\ IF WriteErr(ioErr) = "nil"
       THEN /\ fileLines' = fileLines + 1
            /\ fileSize' = fileSize + fmsg[p].len
            /\ maxLinesCurLines' = maxLinesCurLines + 1
            /\ maxSizeCurSize' = maxSizeCurSize + fmsg[p].len
       ELSE UNCHANGED << fileLines, fileSize, maxLinesCurLines, maxSizeCurSize >>
    /\ fret' = WriteErr(ioErr)
    /\ rot' = IF rot.wrote = "none" THEN [rot EXCEPT !.wrote = WriteErr(ioErr)]
               ELSE rot
    /\ fmsg' = [fmsg EXCEPT ![p] = [len |-> 0, day |-> 0, saw |-> FALSE]]
    /\ fpc' = [fpc EXCEPT ![p] = "idle"]
    /\ fired' = NoFire
    /\ UNCHANGED << rotFailed, MaxLines, MaxSize, Daily, Rotate, fileWriter,
                    dailyOpenDate, activeExists, dense, siblings, today,
                    dailyTasks, sweepers, fwrites, destroyed, rotLog, panicked >>

\* ---- fileLogWriter.dailyRotate: the timer set for the midnight after the
\* open time has fired; needRotate and doRotate get the time read at the start
\* (time.Now() at line 172, not the time of firing); the goroutine then ends.
\* fired.due: the file is still the one opened on day d, and has lines;
\* fired.afterDestroy: Destroy() had run when the timer fired
FiredTasks(d) == [dailyTasks EXCEPT ![d] = @ - 1]

DailyFire(d) ==
    /\ Running
    /\ UNCHANGED << dRest, svars >>
    /\ dailyTasks[d] > 0
    /\ today > d
    /\ needRotate(0, d)
    /\ doRotate(d, FiredTasks(d))
    /\ fired' = [at |-> today, day |-> d, rotated |-> TRUE, afterDestroy |-> destroyed,
                 due |-> Daily /\ dailyOpenDate = d /\ maxLinesCurLines > 0]
    /\ UNCHANGED << fret, MaxLines, MaxSize, Daily, Rotate, dense, today,
                    fpc, fmsg, fwrites, destroyed >>

DailyFireSkip(d) ==
    /\ Running
    /\ UNCHANGED << dRest, svars >>
    /\ dailyTasks[d] > 0
    /\ today > d
    /\ ~needRotate(0, d)
    /\ dailyTasks' = FiredTasks(d)
    /\ fired' = [at |-> today, day |-> d, rotated |-> FALSE, afterDestroy |-> destroyed,
                 due |-> Daily /\ dailyOpenDate = d /\ maxLinesCurLines > 0]
    /\ UNCHANGED << rotFailed, fret, MaxLines, MaxSize, Daily, Rotate, fileWriter,
                    maxLinesCurLines, maxSizeCurSize, dailyOpenDate, activeExists,
                    fileLines, fileSize, dense, siblings, today, fpc, fmsg,
                    sweepers, fwrites, destroyed, rot, rotLog, panicked >>

\* ---- fileLogWriter.Destroy: w.fileWriter.Close(), without the lock
Destroy ==
    /\ Running
    /\ UNCHANGED << dRest, svars >>
    /\ ~destroyed
    /\ destroyed' = TRUE
    /\ fileWriter' = "closed"
    /\ fired' = NoFire
    /\ UNCHANGED << rotFailed, fret, MaxLines, MaxSize, Daily, Rotate,
                    maxLinesCurLines, maxSizeCurSize, dailyOpenDate, activeExists,
                    fileLines, fileSize, dense, siblings, today, fpc, fmsg,
                    dailyTasks, sweepers, fwrites, rot, rotLog, panicked >>

\* ---- the clock: midnight passes
Tick ==
    /\ Running
    /\ UNCHANGED << dRest, svars >>
    /\ today < MaxDay
    /\ today' = today + 1
    /\ fired' = NoFire
    /\ UNCHANGED << rotFailed, fret, MaxLines, MaxSize, Daily, Rotate, fileWriter,
                    maxLinesCurLines, maxSizeCurSize, dailyOpenDate, activeExists,
                    fileLines, fileSize, dense, siblings, fpc, fmsg,
                    dailyTasks, sweepers, fwrites, destroyed, rot, rotLog,
                    panicked >>

FNext ==
    \/ \E p \in FProcs, len \in MsgLens : FWBegin(p, len)
    \/ \E p \in FProcs : FWRotate(p)
    \/ \E p \in FProcs : FWRotateSkip(p)
    \/ \E p \in FProcs, ioErr \in BOOLEAN : FWWrite(p, ioErr)
    \/ \E d \in 1..MaxDay : DailyFire(d)
    \/ \E d \in 1..MaxDay : DailyFireSkip(d)
    \/ Destroy
    \/ Tick

\* ---- opening: Init(config) -> startLogger -> createLogFile, initFd, lines
\* bytes.Count(buf[:c], lineSep)
CountSep(buf) == Cardinality({i \in 1..Len(buf) : buf[i] = "nl"})

\* the loop of lines() (lines 197-208): each fd.Read fills buf from the offset
\* with what is left, at most len(buf) bytes; at the end it reads 0 bytes with
\* io.EOF, which adds nothing and breaks
RECURSIVE ReadLoop(_, _, _)
ReadLoop(bytes, off, count) ==
    IF off >= Len(bytes)
    THEN count
    ELSE LET c == IF Len(bytes) - off < BufLen THEN Len(bytes) - off ELSE BufLen
         IN ReadLoop(bytes, off + c, count + CountSep(SubSeq(bytes, off + 1, off + c)))

\* a count that stops after the first Read
linesOneRead(bytes) ==
    CountSep(SubSeq(bytes, 1, IF Len(bytes) < BufLen THEN Len(bytes) ELSE BufLen))

\* lines(), lines 186-211, every Read succeeding
lines(bytes) == ReadLoop(bytes, 0, 0)

\* newFileWriter and Init(config) up to the call of startLogger, on any file
SInit ==
    /\ MaxLines \in LineLimits
    /\ MaxSize = 0
    /\ Daily \in BOOLEAN
    /\ Rotate = TRUE
    /\ today = 1
    /\ fileWriter = "nil"
    /\ activeExists = TRUE
    /\ content \in UNION {[1..n -> Bytes] : n \in 0..MaxFileLen}
    /\ fileLines = CountSep(content)
    /\ fileSize = Len(content)
    /\ dense = 0 /\ siblings = {}
    /\ maxSizeCurSize = 0 /\ dailyOpenDate = 0 /\ maxLinesCurLines = 0
    /\ dailyTasks = NoTasks /\ sweepers = 0
    /\ fpc = [p \in FProcs |-> "idle"]
    /\ fmsg = [p \in FProcs |-> [len |-> 0, day |-> 0, saw |-> FALSE]]
    /\ fwrites = 0
    /\ fret = "none"
    /\ destroyed = FALSE
    /\ rot = NoRot
    /\ fired = NoFire
    /\ rotFailed = FALSE
    /\ rotLog = << >>
    /\ initErr = "none"

\* startLogger (lines 80-93) and initFd (lines 145-169) as Init calls them:
\* os.OpenFile may fail, and so may a Read of lines()
startLogger(openOk, readOk) ==
    /\ Running
    /\ UNCHANGED dRest
    /\ initErr = "none"
    /\ IF ~openOk
       THEN /\ initErr' = "open"
            /\ UNCHANGED << fileWriter, maxSizeCurSize, dailyOpenDate,
                            maxLinesCurLines, dailyTasks, sweepers >>
       ELSE /\ fileWriter' = "open"
            /\ maxSizeCurSize' = Len(content)
            /\ dailyOpenDate' = today
            /\ dailyTasks' = SpawnDaily(dailyTasks)
            /\ sweepers' = IF Daily THEN sweepers + 1 ELSE sweepers
            /\ IF Len(content) > 0 /\ MaxLines > 0 /\ ~readOk
               THEN /\ maxLinesCurLines' = 0
                    /\ initErr' = "read"
               ELSE /\ maxLinesCurLines' = SeedLines(Len(content), lines(content))
                    /\ initErr' = "nil"
    /\ UNCHANGED << MaxLines, MaxSize, Daily, Rotate, activeExists, fileLines,
                    fileSize, dense, siblings, today, fpc, fmsg, fwrites,
                    fret, destroyed, rot, fired, rotFailed, rotLog, content,
                    panicked >>

\* ------------------------------------------------------- specifications
\* the engine alone: the writer behind bl.outputs is the abstract one above
FIdle ==
    /\ MaxLines = 0 /\ MaxSize = 0 /\ Daily = FALSE /\ Rotate = FALSE
    /\ today = 1
    /\ fileWriter = "open"
    /\ activeExists = TRUE
    /\ fileLines = 0 /\ fileSize = 0
    /\ dense = 0 /\ siblings = {}
    /\ maxSizeCurSize = 0 /\ dailyOpenDate = 1 /\ maxLinesCurLines = 0
    /\ dailyTasks = NoTasks /\ sweepers = 0
    /\ fpc = [p \in FProcs |-> "idle"]
    /\ fmsg = [p \in FProcs |-> [len |-> 0, day |-> 0, saw |-> FALSE]]
    /\ fwrites = 0
    /\ fret = "none"
    /\ destroyed = FALSE
    /\ rot = NoRot
    /\ fired = NoFire
    /\ rotFailed = FALSE
    /\ rotLog = << >>

\* the file writer alone, called directly by FProcs
DIdle ==
    /\ asynchronous = FALSE
    /\ msgChanLen = 1
    /\ msgChan = << >>
    /\ msgChanClosed = FALSE
    /\ signalChan = << >>
    /\ signalChanClosed = FALSE
    /\ wg = 0
    /\ outputs = "set"
    /\ cpc = "none"
    /\ sg = ""
    /\ pc = [p \in Procs |-> "idle"]
    /\ rec = [p \in Procs |-> 0]
    /\ snap = [p \in Procs |-> 0]
    /\ mine = [p \in Procs |-> 0]
    /\ ret = [p \in Procs |-> [op |-> "none", err |-> "nil"]]
    /\ late = [p \in Procs |-> FALSE]
    /\ nextRec = 1
    /\ flushCalls = 0
    /\ closeCalls = 0
    /\ enq = << >>
    /\ sigsDone = 0
    /\ sigsSent = 0
    /\ panicked = "none"
    /\ written = << >>
    /\ failed = {}
    /\ syncedLen = -1
    /\ wstate = "open"

\* the file was opened before the behaviour starts
SIdle ==
    /\ content = << >>
    /\ initErr = "nil"

Init == DInit /\ FIdle /\ SIdle
Next == DNext
Spec == Init /\ [][Next]_vars

FileInit == FInit /\ DIdle /\ SIdle
FileNext == FNext
FileSpec == FileInit /\ [][FileNext]_vars

SeedInit == SInit /\ DIdle
SeedNext == \E openOk, readOk \in BOOLEAN : startLogger(openOk, readOk)
SeedSpec == SeedInit /\ [][SeedNext]_vars

\* ---------------------------------------------------- the dispatch engine
IsPrefix(a, b) == Len(a) <= Len(b) /\ a = SubSeq(b, 1, Len(a))
InSeq(r, q) == \E i \in 1..Len(q) : q[i] = r
\* the caller's last call has returned and was op
Returned(p, op) == pc[p] = "idle" /\ ret[p].op = op
\* callers whose flush/close signal is sent and whose call has not returned
Outstanding == {p \in Procs : pc[p] \in {"fwait", "fadd", "cwait", "cmsg", "csig"}}

\* C1: in async mode the records handed to the writer are, in every reachable
\* state, a prefix of the records in the order they entered the queue: no
\* reordering, no duplicate, no gap, through the select case and the drain loop.
C1_Fifo == asynchronous => IsPrefix(written, enq)

C1_Witness ==
    /\ asynchronous
    /\ enq = << 2, 1 >>
    /\ written = enq
    /\ sigsDone >= 1

\* C2: in async mode, when Flush() has returned, every record whose WriteMsg
\* returned before that Flush() was called has been handed to the writer, and
\* the writer's Flush ran after the last of them.
C2_FlushBarrier ==
    \A p \in Procs :
        (asynchronous /\ Returned(p, "flush")) =>
            /\ Len(written) >= snap[p]
            /\ syncedLen >= snap[p]

\* C3: in async mode, when Close() has returned, the consumer has drained
\* every record enqueued before the call, has flushed and then destroyed the
\* writer, and has left its loop.
C3_CloseDrains ==
    \A p \in Procs :
        (asynchronous /\ Returned(p, "close")) =>
            /\ Len(written) >= snap[p]
            /\ wstate = "destroyed"
            /\ syncedLen = Len(written)
            /\ cpc = "exit"

\* C4: a WriteMsg that begins after Close() has returned does not panic, does
\* not have its record accepted, and returns a closed-state error.
C4_ClosedError ==
    \A p \in Procs :
        late[p] =>
            /\ panicked = "none"
            /\ ~InSeq(rec[p], enq) /\ ~InSeq(rec[p], written)
            /\ pc[p] = "idle" => (ret[p].op = "write" /\ ret[p].err = "closed")

\* C5: in async mode the queue never holds more than its capacity; a record
\* whose send has not completed is held by its blocked caller and is not in
\* the queue; every record whose WriteMsg has returned is in the queue or has
\* been handed to the writer, in enqueue order.
C5_Backpressure ==
    asynchronous =>
        /\ Len(msgChan) <= msgChanLen
        /\ enq = written \o msgChan
        /\ \A p \in Procs : pc[p] = "send" => ~InSeq(rec[p], enq)
        /\ \A r \in 1..(nextRec - 1) :
               InSeq(r, enq) \/ \E p \in Procs : pc[p] = "send" /\ rec[p] = r

C5_Witness ==
    /\ asynchronous
    /\ Len(msgChan) = msgChanLen
    /\ \E p \in Procs : pc[p] = "send"
    /\ \E p \in Procs : Returned(p, "write")

\* C6: in async mode at most one flush/close request is outstanding, a call
\* returns only after the consumer has finished that call's own signal, and
\* the WaitGroup counter never goes below zero.
C6_OneOutstanding ==
    asynchronous =>
        /\ Cardinality(Outstanding) <= 1
        /\ wg >= 0
        /\ \A p \in Procs :
               (Returned(p, "flush") \/ Returned(p, "close")) => sigsDone >= mine[p]

\* ------------------------------------------------- the rotating file writer
\* C7: every rotation that closed the current handle went on to reopen the
\* original path, whatever os.Rename and os.Chmod returned; and after a
\* rotation whose rename failed and whose reopen succeeded, the rotation has
\* returned the rename error, the handle is open and the next write does not
\* find a closed handle (Destroy not having run).
C7_RotationKeepsWriter ==
    /\ rot.closed => rot.reopenTried
    /\ (rot.closed /\ ~rot.renamed /\ rot.reopenOk) =>
          /\ rot.err = "rename"
          /\ ~destroyed => (fileWriter = "open" /\ rot.wrote \in {"none", "nil", "io"})

C7_Witness ==
    /\ rot.closed /\ ~rot.renamed /\ rot.reopenOk
    /\ rot.err = "rename"
    /\ rot.wrote = "nil"
    /\ ~destroyed

\* C8: a rotation that found all of the names 001..999 of the day existing
\* has not panicked, has returned an error to its caller and has left the
\* handle alone.
C8_ExhaustedReportsError ==
    rot.exhausted =>
        /\ panicked = "none"
        /\ rot.err \notin {"none", "nil"}
        /\ ~rot.closed

\* C9: with a size or line limit, every rename went to a numbered name that
\* did not exist, all lower numbers of that day existing, and the numbers of
\* the renames of one day are strictly increasing in the order of the renames.
C9_NumberedNaming ==
    (MaxLines > 0 \/ MaxSize > 0) =>
        /\ \A i \in 1..Len(rotLog) :
               /\ rotLog[i].num \in 1..MaxRotateNum
               /\ ~rotLog[i].existed
               /\ rotLog[i].lowest
        /\ \A i, j \in 1..Len(rotLog) :
               (i < j /\ rotLog[i].day = rotLog[j].day) => rotLog[i].num < rotLog[j].num

C9_Witness ==
    /\ MaxLines > 0
    /\ Len(rotLog) = 2
    /\ rotLog[1].day = rotLog[2].day
    /\ rotLog[1].num = 1 /\ rotLog[2].num = 3

\* needsRotation(pendingBytes, today) as the specification words it
needsRotation(pendingBytes, day) ==
    \/ MaxLines > 0 /\ maxLinesCurLines >= MaxLines
    \/ MaxSize > 0 /\ maxSizeCurSize + pendingBytes >= MaxSize
    \/ Daily /\ day # dailyOpenDate /\ maxLinesCurLines > 0

\* C10: for every record length and day, needRotate answers as needsRotation
\* does: a line limit reached, or byte count + pendingBytes at the size limit,
\* or a daily limit with another day and at least one line written.
C10_NeedRotateIff ==
    \A len \in MsgLens, d \in 1..MaxDay :
        needRotate(len, d) <=> needsRotation(len, d)

\* ------------------------------------------- write errors and the engine
\* C11: in synchronous mode, a WriteMsg whose file write failed with an I/O
\* error on an open writer has returned a non-nil error to its caller.
C11_SyncErrorPropagated ==
    \A p \in Procs :
        (~asynchronous /\ Returned(p, "write") /\ wstate = "open" /\ rec[p] \in failed)
            => ret[p].err # "nil"

\* ------------------------------------------------------ opening the file
\* C12: when Init has succeeded on a writer with MaxLines > 0, whatever the
\* length of the file found against the read buffer, the line counter is the
\* number of line separators of the file (K for a file of K newline-terminated
\* lines) and the byte counter is the file's size.
C12_LineSeeding ==
    (initErr = "nil" /\ fileWriter = "open" /\ MaxLines > 0) =>
        /\ maxLinesCurLines = fileLines
        /\ maxSizeCurSize = fileSize

C12_Witness ==
    /\ initErr = "nil" /\ fileWriter = "open" /\ MaxLines > 0
    /\ Len(content) > BufLen
    /\ content[Len(content)] = "nl"
    /\ content[1] = "nl"
    /\ fileLines = 2
    /\ maxLinesCurLines = 2

\* ------------------------------------------------- the background tasks
\* C13: a daily timer that has fired (after the midnight that follows its open
\* day) has passed needRotate the day on which it fired, and, with Daily set
\* and at least one line in the file opened on its open day, has rotated.
C13_DailyTrigger ==
    fired.at > 0 =>
        /\ fired.day = fired.at
        /\ fired.due => fired.rotated

\* C14: at most one dailyRotate goroutine and at most one taskDeleteLog
\* goroutine exist for the writer, whatever was written and rotated.
C14_OneTriggerOneSweeper ==
    /\ sweepers <= 1
    /\ \A d \in 1..MaxDay : dailyTasks[d] <= 1
    /\ \A d, e \in 1..MaxDay : (dailyTasks[d] > 0 /\ dailyTasks[e] > 0) => d = e

C16_NoRedundantRotation == ~rot.again

C16_Witness ==
    /\ \A p \in FProcs : fpc[p] = "write" /\ fmsg[p].saw
    /\ Len(rotLog) = 1
    /\ rot.renamed /\ rot.reopenOk /\ rot.wrote = "none"

\* ----------------------------------------------------- failed writes
\* C17: in every step that hands a record to the writer and whose Write
\* appends nothing to the file, the line and byte counters stay as they were,
\* the writer returns the error of the Write (the I/O error, or the error of
\* the closed handle), nothing panics, and in async mode the consumer stays in
\* its loop with the records written so far still a prefix of the queue order.
C17_FailedWriteNotFatal ==
    [][ (Len(written') = Len(written) + 1 /\ fileSize' = fileSize) =>
            /\ maxLinesCurLines' = maxLinesCurLines
            /\ maxSizeCurSize' = maxSizeCurSize
            /\ fret' = (IF wstate = "destroyed" THEN "closed" ELSE "io")
            /\ written'[Len(written')] \in failed'
            /\ panicked' = "none"
            /\ asynchronous =>
                  /\ cpc' = cpc /\ cpc' \in {"select", "drain"}
                  /\ IsPrefix(written', enq')
      ]_vars

C17_Witness ==
    /\ asynchronous
    /\ written = << 1, 2 >> /\ failed = {1}
    /\ fret = "nil"
    /\ fileLines = 1 /\ maxLinesCurLines = 1 /\ maxSizeCurSize = fileSize
    /\ panicked = "none"

\* ------------------------------------------------------------ after Close
\* C18: a daily timer that fired after Destroy() had released the handle (as
\* Close() makes it do) has not called doRotate: it has neither renamed the
\* file nor opened a handle on the original path.
C18_NoRotationAfterClose ==
    (fired.at > 0 /\ fired.afterDestroy) => ~fired.rotated

\* ---- C19: with rotation on, a line limit M > 0 and every doRotate so far
\* successful, the active file never holds more than M lines, however many
\* callers are inside fileLogWriter.WriteMsg at the same time
C19_LineLimitHolds ==
    (Rotate /\ MaxLines > 0 /\ ~rotFailed) => fileLines <= MaxLines

\* ---------------------------------------------------------------- liveness
\* The Go scheduler runs every runnable goroutine: the consumer goroutine of
\* startLogger (lines 224-244) takes each of its steps when it can, and a
\* caller that is inside WriteMsg, Flush or Close goes on when its channel
\* operation or wg.Wait() can proceed. Whether a caller starts a new call is
\* left to the caller, and MaxMsgs keeps the records finitely many.
ConsumerFairness ==
    /\ WF_vars(\E ioErr \in BOOLEAN : ConsumerMsg(ioErr))
    /\ WF_vars(ConsumerSignal)
    /\ WF_vars(\E ioErr \in BOOLEAN : ConsumerDrain(ioErr))
    /\ WF_vars(ConsumerFlush)
    /\ WF_vars(ConsumerDone)

CallerFairness ==
    \A p \in Procs :
        /\ WF_vars(WriteMsgSend(p))
        /\ WF_vars(FlushSend(p))
        /\ SF_vars(FlushWait(p))
        /\ WF_vars(FlushAdd(p))
        /\ WF_vars(CloseSend(p))
        /\ SF_vars(CloseWait(p))
        /\ WF_vars(CloseMsgChan(p))
        /\ WF_vars(CloseSigChan(p))

LiveSpec == Init /\ [][Next]_vars /\ ConsumerFairness /\ CallerFairness

\* ---- C20: in async mode every Flush() that was called returns in the end,
\* the consumer being scheduled fairly and the records finitely many
C20_FlushReturns ==
    \A p \in Procs :
        (asynchronous /\ pc[p] \in {"fsend", "fwait", "fadd"})
            ~> (pc[p] = "idle" /\ ret[p].op = "flush")
====
